---- MODULE Spec2Model ----
(***************************************************************************)
(* Bra-ket algebra engine of complex-calculator (src/ket.rs): KetBra and   *)
(* Ket terms, Operator and State aggregates, and the operations that       *)
(* combine them (tensor, composition, addition, application, scaling,      *)
(* identity).                                                              *)
(*                                                                         *)
(* The index fields ket, bra and n are Rust u32 values.  TLC integers are  *)
(* 32-bit signed, so a u32 is held as a pair <<hi, lo>> of 16-bit limbs    *)
(* (value = hi * 2^16 + lo) and u32 arithmetic is done limb-wise, which    *)
(* keeps the wrap-around at 2^32 and the overflow condition exact.         *)
(* The coefficient type T is generic in the source; it is modelled by the  *)
(* integers.                                                               *)
(***************************************************************************)
EXTENDS Integers, Sequences, FiniteSets, TLC

VARIABLES
    overflowChecks, \* build profile: TRUE = overflow-checks on (debug), FALSE = wrapping (release)
    ta, tb,         \* KetBra operands of the term-level tensor product
    x, y,           \* Operator bindings (operands of the operator-level operations)
    psi,            \* State binding (operand of operator-on-state application)
    res,            \* value produced by the last operation: [kind, val]
    last,           \* name of the last operation ("none" before any)
    arg,            \* plain argument of the last operation (n of identity, r of scaling)
    binds,          \* number of results bound to x, y or psi so far
    env             \* values bound so far by the statements of a test body, in order

vars == <<overflowChecks, ta, tb, x, y, psi, res, last, arg, binds, env>>

----------------------------------------------------------------------------
(* Bounds of the model *)

MaxTerms == 3      \* terms of the two drawn operands of an operation, together
MaxShuffle == 3    \* merged results up to this size are collected in every order
MaxBinds == 1      \* results bound back to x, y or psi in one session

----------------------------------------------------------------------------
(* u32 arithmetic *)

U32Bits == 32
Limb == 2 ^ (U32Bits \div 2)

U32(i) == <<i \div Limb, i % Limb>>
Zero32 == U32(0)
One32 == U32(1)
Two32 == U32(2)

IsOdd32(a) == a[2] % 2 = 1
Halve32(a) == <<a[1] \div 2, (a[1] % 2) * (Limb \div 2) + (a[2] \div 2)>>

\* a + b on u32: the wrapped sum and whether the true sum exceeds u32::MAX
AddU32(a, b) ==
    LET lo == a[2] + b[2]
        hi == a[1] + b[1] + (lo \div Limb)
    IN  [v |-> <<hi % Limb, lo % Limb>>, ovf |-> hi >= Limb]

\* The exact product of two 16-bit limbs as <<hi, lo>>, in steps that stay
\* below 2^31: upper weighs 2^8, lower weighs 1
Byte == 2 ^ (U32Bits \div 4)
MulLimbParts(upper, lower) ==
    LET lo == (upper % Byte) * Byte + (lower % Limb)
    IN  <<(upper \div Byte) + (lower \div Limb) + (lo \div Limb), lo % Limb>>
MulLimb(a, b) == MulLimbParts(a * (b \div Byte), a * (b % Byte))

\* a * b on u32 (schoolbook over the limbs): wrapped product and whether the
\* true product exceeds u32::MAX
MulU32Parts(a, b, low, cross1, cross2) ==
    LET hi == low[1] + cross1[2] + cross2[2]
    IN  [v   |-> <<hi % Limb, low[2]>>,
         ovf |-> \/ (a[1] # 0 /\ b[1] # 0)
                 \/ cross1[1] # 0 \/ cross2[1] # 0
                 \/ hi >= Limb]
MulU32(a, b) ==
    MulU32Parts(a, b, MulLimb(a[2], b[2]), MulLimb(a[1], b[2]), MulLimb(a[2], b[1]))

\* u32::pow, exponentiation by squaring as in core::num: one round of the loop
\* is PowLoop (acc = acc * base when exp is odd) followed by PowSquare
\* (return when exp == 1, else exp /= 2; base = base * base)
RECURSIVE PowLoop(_, _, _, _)
PowSquare(base, exp, m, ovf, sq) ==
    IF exp = One32 THEN [v |-> m.v, ovf |-> ovf \/ m.ovf]
    ELSE PowLoop(sq.v, Halve32(exp), m.v, ovf \/ m.ovf \/ sq.ovf)
PowLoop(base, exp, acc, ovf) ==
    PowSquare(base, exp,
              IF IsOdd32(exp) THEN MulU32(acc, base) ELSE [v |-> acc, ovf |-> FALSE],
              ovf, MulU32(base, base))

PowU32(base, exp) ==
    IF exp = Zero32 THEN [v |-> One32, ovf |-> FALSE]
    ELSE PowLoop(base, exp, One32, FALSE)

----------------------------------------------------------------------------
(* Terms *)

\* (record fields are written in the order the names first occur in this module,
\* the order in which the model checker keeps them)
KetBra(scalar, ket, bra, n) == [scalar |-> scalar, ket |-> ket, bra |-> bra, n |-> n]
Ket(scalar, ket, n) == [scalar |-> scalar, ket |-> ket, n |-> n]

Value(kind, val) == [kind |-> kind, val |-> val]
Panic == Value("panic", <<>>)
NoValue == Value("none", <<>>)

\* KetBra::tensor.  An arithmetic overflow panics when overflow checks are
\* compiled in and wraps otherwise.  p is 2u32.pow(other.n), km and bm are
\* self.ket * p and self.bra * p.
KetBraTensorSums(self, other, checks, povf, km, bm) ==
    LET ks  == AddU32(km.v, other.ket)
        bs  == AddU32(bm.v, other.bra)
        ns  == AddU32(self.n, other.n)
        ovf == povf \/ km.ovf \/ ks.ovf \/ bm.ovf \/ bs.ovf \/ ns.ovf
    IN  IF checks /\ ovf THEN Panic
        ELSE Value("ketbra",
                   KetBra(self.scalar * other.scalar, ks.v, bs.v, ns.v))
KetBraTensorProducts(self, other, checks, p) ==
    KetBraTensorSums(self, other, checks, p.ovf,
                     MulU32(self.ket, p.v), MulU32(self.bra, p.v))
\* A variant of the term-level tensor product with the operands exchanged
\* (other.ket * 2^self.n + self.ket); C11 tells it from the code
KetBraTensorExchanged(self, other, checks) ==
    KetBraTensorProducts(other, self, checks, PowU32(Two32, self.n))
\* A variant of the term-level tensor product that does not shift the left
\* index (self.ket + other.ket, 2u32.pow(0) for the factor); C16 tells it
\* from the code
KetBraTensorUnshifted(self, other, checks) ==
    KetBraTensorProducts(self, other, checks, PowU32(Two32, Zero32))
KetBraTensor(self, other, checks) ==
    KetBraTensorProducts(self, other, checks, PowU32(Two32, other.n))

\* Neg for KetBra: the coefficient is negated
KetBraNeg(self) == [self EXCEPT !.scalar = -@]

----------------------------------------------------------------------------
(* Aggregates *)

Operator(scalar, ones) == [scalar |-> scalar, ones |-> ones]
State(scalar, superpositions) == [scalar |-> scalar, superpositions |-> superpositions]

UnitKetBra(ket, bra, n) == [ket |-> ket, bra |-> bra, n |-> n]
UnitKet(ket, n) == [ket |-> ket, n |-> n]

\* HashMap<K, T> as a function from the keys present to their values
EmptyMap == [k \in {} |-> 0]

\* A variant of the entry update that stores the product instead of adding it
\* (map.insert(unit, scalar)); C7 tells it from the code
EntryInsert(map, unit, scalar) ==
    [k \in DOMAIN map \cup {unit} |-> IF k = unit THEN scalar ELSE map[k]]

\* *map.entry(unit).or_insert(T::zero()) += scalar
EntryAdd(map, unit, scalar) ==
    IF unit \in DOMAIN map
    THEN [map EXCEPT ![unit] = @ + scalar]
    ELSE [k \in DOMAIN map \cup {unit} |-> IF k = unit THEN 0 + scalar ELSE map[k]]

\* A variant of the collection that keeps every key, without the filter; C3
\* tells it from the code
AllKeys(map) == DOMAIN map

\* A variant of the filter that keeps the positive sums only (> for !=); C12
\* tells it from the code
PositiveKeys(map) == {k \in DOMAIN map : map[k] > 0}

\* .filter(|(_, scalar)| *scalar != T::zero())
NonZeroKeys(map) == {k \in DOMAIN map : map[k] # 0}

\* One fixed arrangement of a set, and the same one reversed
RECURSIVE SomeOrder(_)
SomeOrder(items) ==
    IF items = {} THEN <<>>
    ELSE LET e == CHOOSE e \in items : TRUE
         IN  <<e>> \o SomeOrder(items \ {e})

Reversed(s) == [i \in 1..Len(s) |-> s[Len(s) + 1 - i]]

\* into_iter().collect(): a HashMap iterates in an unspecified order, so the
\* collected Vec is any arrangement of the set of items.  Every arrangement is
\* explored for up to MaxShuffle items, two opposite ones beyond that.
Orderings(items) ==
    IF Cardinality(items) <= MaxShuffle
    THEN {s \in [1..Cardinality(items) -> items] :
            \A i, j \in 1..Cardinality(items) : i # j => s[i] # s[j]}
    ELSE {SomeOrder(items), Reversed(SomeOrder(items))}

\* A variant of the push that skips terms with a zero coefficient; C6 tells it
\* from the code
PushNonZero(acc, t) ==
    IF t.kind = "panic" THEN [ones |-> <<>>, panicked |-> TRUE]
    ELSE IF t.val.scalar = 0 THEN acc
    ELSE [ones |-> Append(acc.ones, t.val), panicked |-> FALSE]

\* Operator::tensor: the nested loops pushing kb.tensor(other_kb); acc is
\* [ones, panicked], the Vec built so far, or panicked once a push unwinds
Push(acc, t) ==
    IF t.kind = "panic" THEN [ones |-> <<>>, panicked |-> TRUE]
    ELSE [ones |-> Append(acc.ones, t.val), panicked |-> FALSE]

RECURSIVE TensorInner(_, _, _, _, _)
TensorInner(kb, others, j, acc, checks) ==
    IF acc.panicked \/ j > Len(others) THEN acc
    ELSE TensorInner(kb, others, j + 1,
                     Push(acc, KetBraTensor(kb, others[j], checks)), checks)

RECURSIVE TensorOuter(_, _, _, _, _)
TensorOuter(selfOnes, others, i, acc, checks) ==
    IF acc.panicked \/ i > Len(selfOnes) THEN acc
    ELSE TensorOuter(selfOnes, others, i + 1,
                     TensorInner(selfOnes[i], others, 1, acc, checks), checks)

TensorResult(scalar, r) ==
    IF r.panicked THEN Panic ELSE Value("operator", Operator(scalar, r.ones))
OperatorTensor(self, other, checks) ==
    TensorResult(self.scalar * other.scalar,
                 TensorOuter(self.ones, other.ones, 1,
                             [ones |-> <<>>, panicked |-> FALSE], checks))

\* The loops below hand an evaluated map to their next iteration, as the code
\* does: After(map, v) is v, taken once map has been evaluated (without it the
\* accumulator would stay a pending expression as deep as the loop is long)
After(map, v) == IF DOMAIN map = {} THEN v ELSE v

\* Operator * Operator: the accumulation loops
RECURSIVE MulInner(_, _, _, _)
MulInner(kb, others, j, map) ==
    IF j > Len(others) THEN map
    ELSE LET other_kb == others[j]
         IN  After(map, MulInner(kb, others, j + 1,
                 IF kb.bra = other_kb.ket
                 THEN EntryAdd(map, UnitKetBra(kb.ket, other_kb.bra, kb.n),
                               kb.scalar * other_kb.scalar)
                 ELSE map))

RECURSIVE MulOuter(_, _, _, _)
MulOuter(selfOnes, others, i, map) ==
    IF i > Len(selfOnes) THEN map
    ELSE After(map, MulOuter(selfOnes, others, i + 1,
                             MulInner(selfOnes[i], others, 1, map)))

\* the filter, map and collect that end mul and add: the Operators that can
\* come out of the accumulated map (one per iteration order)
CollectOperators(scalar, map) ==
    {Operator(scalar, ones) :
        ones \in Orderings({KetBra(map[k], k.ket, k.bra, k.n) : k \in NonZeroKeys(map)})}
CollectStates(scalar, map) ==
    {State(scalar, sup) :
        sup \in Orderings({Ket(map[k], k.ket, k.n) : k \in NonZeroKeys(map)})}

\* A variant of the composition whose keys take n from the right operand's
\* term (n: other_kb.n), here for a right operand with one n; C14 tells it
\* from the code
OperatorMulRightN(self, rhs) ==
    CollectOperators(self.scalar * rhs.scalar,
        MulOuter([i \in 1..Len(self.ones) |->
                     [self.ones[i] EXCEPT !.n = IF rhs.ones = <<>> THEN @ ELSE rhs.ones[1].n]],
                 rhs.ones, 1, EmptyMap))

\* A variant of the composition with the operands exchanged (rhs * self); C2
\* tells it from the code
OperatorMulSwapped(self, rhs) ==
    CollectOperators(self.scalar * rhs.scalar,
                     MulOuter(rhs.ones, self.ones, 1, EmptyMap))

\* the set of Operators self * rhs can return
OperatorMul(self, rhs) ==
    CollectOperators(self.scalar * rhs.scalar,
                     MulOuter(self.ones, rhs.ones, 1, EmptyMap))

\* Operator + Operator: one loop over self.ones chained with rhs.ones
RECURSIVE AddLoop(_, _, _, _)
AddLoop(chain, i, selfScalar, map) ==
    IF i > Len(chain) THEN map
    ELSE LET kb == chain[i]
         IN  After(map, AddLoop(chain, i + 1, selfScalar,
                     EntryAdd(map, UnitKetBra(kb.ket, kb.bra, kb.n),
                              kb.scalar * selfScalar)))

\* A variant of the addition that collects the scaled non-zero terms of both
\* operands without merging them by key; C15 tells it from the code
OperatorAddUnmerged(self, rhs) ==
    {Operator(1, SelectSeq([i \in 1..Len(self.ones \o rhs.ones) |->
                               [(self.ones \o rhs.ones)[i] EXCEPT !.scalar = @ * self.scalar]],
                           LAMBDA t : t.scalar # 0))}

\* A variant of the addition that leaves self.scalar out of the accumulated
\* coefficients; C5 tells it from the code
OperatorAddUnscaled(self, rhs) ==
    CollectOperators(1, AddLoop(self.ones \o rhs.ones, 1, 1, EmptyMap))

OperatorAdd(self, rhs) ==
    CollectOperators(1, AddLoop(self.ones \o rhs.ones, 1, self.scalar, EmptyMap))

\* Operator * State
RECURSIVE ApplyInner(_, _, _, _)
ApplyInner(kb, sup, j, map) ==
    IF j > Len(sup) THEN map
    ELSE LET pos == sup[j]
         IN  After(map, ApplyInner(kb, sup, j + 1,
                 IF kb.bra = pos.ket
                 THEN EntryAdd(map, UnitKet(kb.ket, kb.n), kb.scalar * pos.scalar)
                 ELSE map))

RECURSIVE ApplyOuter(_, _, _, _)
ApplyOuter(selfOnes, sup, i, map) ==
    IF i > Len(selfOnes) THEN map
    ELSE After(map, ApplyOuter(selfOnes, sup, i + 1,
                               ApplyInner(selfOnes[i], sup, 1, map)))

OperatorMulState(self, rhs) ==
    CollectStates(self.scalar * rhs.scalar,
                  ApplyOuter(self.ones, rhs.superpositions, 1, EmptyMap))

\* A variant of the scaling that multiplies rhs into every term instead of the
\* overall scalar; C13 tells it from the code
OperatorScaleEager(self, rhs) ==
    [self EXCEPT !.ones = [i \in 1..Len(self.ones) |->
                             [self.ones[i] EXCEPT !.scalar = @ * rhs]]]

\* Operator * T
OperatorScale(self, rhs) == [self EXCEPT !.scalar = @ * rhs]

\* A variant of the identity that always tags its terms as one-qubit terms;
\* C10 tells it from the code
OperatorIdentityOneQubit(n) ==
    Operator(1, <<KetBra(1, Zero32, Zero32, One32), KetBra(1, One32, One32, One32)>>)

\* Operator::identity
OperatorIdentity(n) ==
    Operator(1, <<KetBra(1, Zero32, Zero32, n), KetBra(1, One32, One32, n)>>)

\* u32 -> usize for a formatting width (indices below 2^31 only)
ToInt(a) == a[1] * Limb + a[2]

\* {:b}: the binary digits, most significant first
RECURSIVE Digits(_)
Digits(a) ==
    IF a = Zero32 THEN <<>>
    ELSE Append(Digits(Halve32(a)), IF IsOdd32(a) THEN 1 ELSE 0)

\* {:0>width$b}: zero-padded on the left to at least width digits
Padded(a, width) ==
    LET d  == IF a = Zero32 THEN <<0>> ELSE Digits(a)
        w  == ToInt(width)
    IN  IF Len(d) >= w THEN d ELSE [i \in 1..(w - Len(d)) |-> 0] \o d

\* Display for KetBra and Ket: the coefficient is elided when it is one
DisplayKetBra(kb) ==
    [ket  |-> Padded(kb.ket, kb.n),
     bra  |-> Padded(kb.bra, kb.n),
     coef |-> IF kb.scalar # 1 THEN <<kb.scalar>> ELSE <<>>]

DisplayKet(k) ==
    [ket  |-> Padded(k.ket, k.n),
     coef |-> IF k.scalar # 1 THEN <<k.scalar>> ELSE <<>>]

\* Display for Operator: self.ones[0] is indexed unconditionally and panics
\* (index out of bounds) on an empty Vec
DisplayOperator(self) ==
    IF Len(self.ones) = 0 THEN Panic
    ELSE Value("text",
               [scalar |-> IF self.scalar # 1 THEN <<self.scalar>> ELSE <<>>,
                terms  |-> [i \in 1..Len(self.ones) |-> DisplayKetBra(self.ones[i])]])

\* Display for State
DisplayState(self) ==
    IF Len(self.superpositions) = 0 THEN Panic
    ELSE Value("text",
               [scalar |-> IF self.scalar # 1 THEN <<self.scalar>> ELSE <<>>,
                terms  |-> [i \in 1..Len(self.superpositions) |->
                               DisplayKet(self.superpositions[i])]])

----------------------------------------------------------------------------
(* Operands *)

\* 2^n - 1 as a u32, for 0 <= n <= 32
MaxIndex(n) ==
    IF n <= U32Bits \div 2 THEN <<0, 2 ^ n - 1>>
    ELSE <<2 ^ (n - U32Bits \div 2) - 1, Limb - 1>>

\* Terms at the edges of the u32 range: qubit counts up to 32, indices 0, 1
\* and 2^n - 1, all with ket, bra < 2^n
EdgeN == {0, 1, 2, U32Bits \div 2, U32Bits - 1, U32Bits}
EdgeIndices(n) == IF n = 0 THEN {Zero32} ELSE {Zero32, One32, MaxIndex(n)}
EdgeCoefs == {-1, 2}
EdgeTerms ==
    UNION {{KetBra(s, k, b, U32(n)) :
              s \in EdgeCoefs, k \in EdgeIndices(n), b \in EdgeIndices(n)} :
           n \in EdgeN}

\* Every term scalar|ket><bra| with a qubit count in ns, ket, bra < 2^n and a
\* coefficient in coefs; likewise every Ket
KetBras(ns, coefs) ==
    UNION {{KetBra(s, U32(k), U32(b), U32(n)) :
              s \in coefs, k \in 0..(2 ^ n - 1), b \in 0..(2 ^ n - 1)} : n \in ns}
Kets(ns, coefs) ==
    UNION {{Ket(s, U32(k), U32(n)) : s \in coefs, k \in 0..(2 ^ n - 1)} : n \in ns}

\* Non-empty term lists of exactly len terms
Lists(terms, len) == [1..len -> terms]

\* Pairs of list lengths, each at least 1, MaxTerms together at most
LenPairs == {p \in (1..MaxTerms) \X (1..MaxTerms) : p[1] + p[2] <= MaxTerms}

LeftScalars == {1, 2}
RightScalars == {1, 3}

DefaultTerm == KetBra(1, Zero32, Zero32, One32)
DefaultOperator == OperatorIdentity(One32)
DefaultState == State(1, <<Ket(1, Zero32, One32)>>)

\* The operators and states the tests build from literals
Projector1 == Operator(1, <<KetBra(1, One32, One32, One32)>>)
Projector0 == Operator(1, <<KetBra(1, Zero32, Zero32, One32)>>)
PauliX == Operator(1, <<KetBra(1, Zero32, One32, One32), KetBra(1, One32, Zero32, One32)>>)
PauliZ == Operator(1, <<KetBra(1, Zero32, Zero32, One32), KetBra(-1, One32, One32, One32)>>)
LiteralOperators == {Projector0, Projector1, PauliX, PauliZ}
LiteralStates == {State(1, <<Ket(1, U32(k), One32)>>) : k \in 0..1}

IdentityArgs == {U32(0), U32(1), U32(2), U32(U32Bits)}
ScaleArgs == {-1, 0, 2}

----------------------------------------------------------------------------
(* Initial states *)

Fresh == res = NoValue /\ last = "none" /\ arg = <<>> /\ binds = 0 /\ env = <<>>

\* two KetBra terms for KetBra::tensor
InitKetBra ==
    /\ overflowChecks \in BOOLEAN
    /\ ta \in EdgeTerms /\ tb \in EdgeTerms
    /\ x = DefaultOperator /\ y = DefaultOperator /\ psi = DefaultState
    /\ Fresh

\* two operators over 0 and 1 qubits, zero coefficients included; the right
\* overall scalar differs from every left one
InitTensor ==
    /\ overflowChecks \in BOOLEAN
    /\ ta = DefaultTerm /\ tb = DefaultTerm
    /\ \E p \in LenPairs :
         /\ x \in {Operator(s, l) : s \in LeftScalars, l \in Lists(KetBras({0, 1}, {-1, 0}), p[1])}
         /\ y \in {Operator(s, l) : s \in RightScalars \ LeftScalars,
                                     l \in Lists(KetBras({0, 1}, {-1, 0}), p[2])}
    /\ psi = DefaultState
    /\ Fresh

\* two operators over one qubit
InitPair ==
    /\ overflowChecks = TRUE
    /\ ta = DefaultTerm /\ tb = DefaultTerm
    /\ \E p \in LenPairs :
         /\ x \in {Operator(s, l) : s \in LeftScalars, l \in Lists(KetBras({1}, {-1, 1}), p[1])}
         /\ y \in {Operator(s, l) : s \in RightScalars, l \in Lists(KetBras({1}, {-1, 1}), p[2])}
    /\ psi = DefaultState
    /\ Fresh

\* an operator and a state over one qubit
InitApply ==
    /\ overflowChecks = TRUE
    /\ ta = DefaultTerm /\ tb = DefaultTerm
    /\ y = DefaultOperator
    /\ \E p \in LenPairs :
         /\ x \in {Operator(s, l) : s \in LeftScalars, l \in Lists(KetBras({1}, {-1, 1}), p[1])}
         /\ psi \in {State(s, l) : s \in RightScalars, l \in Lists(Kets({1}, {-1, 1}), p[2])}
    /\ Fresh

\* one operator over 0 and 1 qubits, zero coefficients included
InitScale ==
    /\ overflowChecks \in BOOLEAN
    /\ ta = DefaultTerm /\ tb = DefaultTerm
    /\ \E len \in 1..MaxTerms :
         x \in {Operator(s, l) : s \in LeftScalars, l \in Lists(KetBras({0, 1}, {-1, 0}), len)}
    /\ y = DefaultOperator /\ psi = DefaultState
    /\ Fresh

\* two operators and a state whose terms mix the qubit counts 0 and 1 and
\* repeat slots; the state carries the kets of y's terms
MergeTerms == KetBras({0, 1}, {1}) \cup {KetBraNeg(KetBra(1, Zero32, Zero32, One32))}
KetsOf(ones) == [i \in 1..Len(ones) |-> Ket(ones[i].scalar, ones[i].ket, ones[i].n)]
InitMerge ==
    /\ overflowChecks = TRUE
    /\ ta = DefaultTerm /\ tb = DefaultTerm
    /\ \E p \in LenPairs :
         /\ x \in {Operator(s, l) : s \in LeftScalars, l \in Lists(MergeTerms, p[1])}
         /\ y \in {Operator(s, l) : s \in RightScalars \ LeftScalars, l \in Lists(MergeTerms, p[2])}
    /\ psi = State(y.scalar, KetsOf(y.ones))
    /\ Fresh

\* a session starting from the literals of the tests
Init ==
    /\ overflowChecks \in BOOLEAN
    /\ ta = DefaultTerm /\ tb = DefaultTerm
    /\ x \in LiteralOperators /\ y \in LiteralOperators
    /\ psi \in LiteralStates
    /\ Fresh

----------------------------------------------------------------------------
(* Operations *)

Produce(op, value, a) ==
    /\ res' = value
    /\ last' = op
    /\ arg' = a
    /\ UNCHANGED <<overflowChecks, ta, tb, x, y, psi, binds, env>>

\* ta.tensor(&tb)
KetBraTensorStep ==
    Produce("ketbra_tensor", KetBraTensor(ta, tb, overflowChecks), <<>>)

\* Operator::identity(n)
IdentityStep ==
    \E n \in IdentityArgs :
        Produce("identity", Value("operator", OperatorIdentity(n)), n)

\* x.tensor(&y)
TensorStep ==
    Produce("tensor", OperatorTensor(x, y, overflowChecks), <<>>)

\* x * y
ComposeStep ==
    \E r \in OperatorMul(x, y) : Produce("compose", Value("operator", r), <<>>)

\* x + y
AddStep ==
    \E r \in OperatorAdd(x, y) : Produce("add", Value("operator", r), <<>>)

\* x * psi
ApplyStep ==
    \E r \in OperatorMulState(x, psi) : Produce("apply", Value("state", r), <<>>)

\* x * r
ScaleStep ==
    \E r \in ScaleArgs : Produce("scale", Value("operator", OperatorScale(x, r)), r)

\* println!("{}", x) and println!("{}", psi)
DisplayStep ==
    Produce("display", DisplayOperator(x), <<>>)
DisplayStateStep ==
    Produce("display_state", DisplayState(psi), <<>>)

\* let x = <result>; let y = <result>; let psi = <result>
Bound ==
    /\ binds < MaxBinds
    /\ binds' = binds + 1
    /\ res' = NoValue /\ last' = "bind" /\ arg' = <<>>
    /\ UNCHANGED <<overflowChecks, ta, tb, env>>
BindX ==
    res.kind = "operator" /\ x' = res.val /\ UNCHANGED <<y, psi>> /\ Bound
BindY ==
    res.kind = "operator" /\ y' = res.val /\ UNCHANGED <<x, psi>> /\ Bound
BindPsi ==
    res.kind = "state" /\ psi' = res.val /\ UNCHANGED <<x, y>> /\ Bound

NextKetBra == KetBraTensorStep
NextIdentity == IdentityStep
NextScale == ScaleStep
NextMerge ==
    \/ ComposeStep
    \/ AddStep
    \/ ApplyStep
NextTensor == TensorStep
NextCompose == ComposeStep
NextAdd == AddStep
NextApply == ApplyStep
Next ==
    \/ IdentityStep
    \/ TensorStep
    \/ ComposeStep
    \/ AddStep
    \/ ApplyStep
    \/ ScaleStep
    \/ DisplayStep
    \/ DisplayStateStep
    \/ BindX
    \/ BindY
    \/ BindPsi

SpecKetBra == InitKetBra /\ [][NextKetBra]_vars
SpecIdentity == Init /\ [][NextIdentity]_vars
SpecScale == InitScale /\ [][NextScale]_vars
SpecMerge == InitMerge /\ [][NextMerge]_vars
SpecTensor == InitTensor /\ [][NextTensor]_vars
SpecCompose == InitPair /\ [][NextCompose]_vars
SpecAdd == InitPair /\ [][NextAdd]_vars
SpecApply == InitApply /\ [][NextApply]_vars
Spec == Init /\ [][Next]_vars

----------------------------------------------------------------------------
(* Test bodies: the let statements of a test, one step each.  env holds the  *)
(* values bound so far; a panic unwinds the test, so nothing follows it.     *)

Idle == res = NoValue /\ last = "none" /\ arg = <<>> /\ binds = 0

\* the statement after the at-th binding binds value
Let(op, at, value) ==
    /\ Len(env) = at /\ env[at].kind # "panic"
    /\ env' = Append(env, value)
    /\ res' = value /\ last' = op /\ arg' = <<>>
    /\ UNCHANGED <<overflowChecks, ta, tb, x, y, psi, binds>>

\* tests::operator_product, for any two one-qubit literal operators b and c
\* (the test takes the projector |1><1| for both): env = <<b, c>>
InitProduct ==
    /\ overflowChecks \in BOOLEAN
    /\ ta = DefaultTerm /\ tb = DefaultTerm
    /\ x \in LiteralOperators /\ y \in LiteralOperators
    /\ psi = DefaultState
    /\ Idle
    /\ env = <<Value("operator", x), Value("operator", y)>>

\* let id = Operator::identity(1)
ProductId == Let("id", 2, Value("operator", OperatorIdentity(One32)))
\* let b0 = id.tensor(&c)
ProductB0 == Let("b0", 3, OperatorTensor(env[3].val, env[2].val, overflowChecks))
\* let b1 = b.tensor(&id)
ProductB1 == Let("b1", 4, OperatorTensor(env[1].val, env[3].val, overflowChecks))
\* let b1b0 = b1 * b0
ProductB1B0 ==
    /\ Len(env) = 5 /\ env[5].kind = "operator"
    /\ \E r \in OperatorMul(env[5].val, env[4].val) : Let("b1b0", 5, Value("operator", r))
\* println!("{}", b1b0)
ProductPrint == Let("println", 6, DisplayOperator(env[6].val))

NextProduct ==
    \/ ProductId
    \/ ProductB0
    \/ ProductB1
    \/ ProductB1B0
    \/ ProductPrint

SpecProduct == InitProduct /\ [][NextProduct]_vars

\* tests::ex_3_4_1.  h is the literal of the test, or the same list without
\* the negation of its last term; its overall scalar (1/sqrt(2) in the test)
\* is any of LeftScalars.  c10 is the literal of the test.  env = <<h, c10>>
HadamardLike(scalar, last_term) ==
    Operator(scalar, <<KetBra(1, Zero32, One32, One32), KetBra(1, One32, Zero32, One32),
                       KetBra(1, Zero32, Zero32, One32), last_term>>)
ControlledNot10 ==
    Operator(1, <<KetBra(1, U32(0), U32(0), Two32), KetBra(1, U32(1), U32(1), Two32),
                  KetBra(1, U32(3), U32(2), Two32), KetBra(1, U32(2), U32(3), Two32)>>)

InitEx341 ==
    /\ overflowChecks \in BOOLEAN
    /\ ta = DefaultTerm /\ tb = DefaultTerm
    /\ x \in {HadamardLike(s, t) : s \in LeftScalars,
                                   t \in {KetBra(1, One32, One32, One32),
                                          KetBraNeg(KetBra(1, One32, One32, One32))}}
    /\ y = ControlledNot10
    /\ psi = DefaultState
    /\ Idle
    /\ env = <<Value("operator", x), Value("operator", y)>>

\* let id = Operator::<f64>::identity(1)
Ex341Id == Let("id", 2, Value("operator", OperatorIdentity(One32)))
\* let h0 = id.tensor(&h)
Ex341H0 == Let("h0", 3, OperatorTensor(env[3].val, env[1].val, overflowChecks))
\* let h1 = h.tensor(&id)
Ex341H1 == Let("h1", 4, OperatorTensor(env[1].val, env[3].val, overflowChecks))
\* println!("h0 = {}", h0); println!("h1 = {}", h1)
Ex341PrintH0 == Let("println_h0", 5, DisplayOperator(env[4].val))
Ex341PrintH1 == Let("println_h1", 6, DisplayOperator(env[5].val))
\* let h0h1 = h0 * h1
Ex341H0H1 ==
    /\ Len(env) = 7 /\ env[7].kind # "panic"
    /\ \E r \in OperatorMul(env[4].val, env[5].val) : Let("h0h1", 7, Value("operator", r))
\* println!("h0h1 = {}", h0h1)
Ex341PrintH0H1 == Let("println_h0h1", 8, DisplayOperator(env[8].val))
\* h0h1.clone() * c10
Ex341Left ==
    /\ Len(env) = 9 /\ env[9].kind # "panic"
    /\ \E r \in OperatorMul(env[8].val, env[2].val) : Let("h0h1_c10", 9, Value("operator", r))
\* let c01 = (h0h1.clone() * c10) * h0h1
Ex341C01 ==
    /\ Len(env) = 10
    /\ \E r \in OperatorMul(env[10].val, env[8].val) : Let("c01", 10, Value("operator", r))
\* println!("h0h1c10h0h1 = {} = c01", c01)
Ex341PrintC01 == Let("println_c01", 11, DisplayOperator(env[11].val))

NextEx341 ==
    \/ Ex341Id
    \/ Ex341H0
    \/ Ex341H1
    \/ Ex341PrintH0
    \/ Ex341PrintH1
    \/ Ex341H0H1
    \/ Ex341PrintH0H1
    \/ Ex341Left
    \/ Ex341C01
    \/ Ex341PrintC01

SpecEx341 == InitEx341 /\ [][NextEx341]_vars

\* The two sides of the mixed-product property, as the statements
\*   let ab = a.tensor(&b);  let cd = c.tensor(&d);  let lhs = ab * cd;
\*   let ac = a * c;  let bd = b * d;  let rhs = ac.tensor(&bd);
\* a and c are any operators of MaxTerms terms together over MixedTerms with
\* one qubit count (x and y), b and d one-qubit literals, d scaled; the qubit counts are too small
\* for an overflow, so one build is taken.  env = <<a, b, c, d>>
MixedTerms ==
    {KetBra(1, Zero32, Zero32, Zero32),
     KetBra(1, Zero32, One32, One32), KetBraNeg(KetBra(1, Zero32, One32, One32)),
     KetBra(1, One32, Zero32, One32), KetBra(1, One32, One32, One32)}
MixedRight == {PauliX, PauliZ}
MixedRightScaled == {OperatorScale(PauliX, s) : s \in RightScalars \ LeftScalars}
InitMixed ==
    /\ overflowChecks = TRUE
    /\ ta = DefaultTerm /\ tb = DefaultTerm
    /\ \E s \in LeftScalars, p \in LenPairs :
         /\ x \in {Operator(s, l) : l \in Lists(MixedTerms, p[1])}
         /\ y \in {Operator(1, l) : l \in Lists(MixedTerms, p[2])}
    /\ \A i \in 1..Len(x.ones), j \in 1..Len(y.ones) :
         x.ones[i].n = x.ones[1].n /\ y.ones[j].n = x.ones[1].n
    /\ psi = DefaultState
    /\ Idle
    /\ \E b \in MixedRight, d \in MixedRightScaled :
         env = <<Value("operator", x), Value("operator", b),
                 Value("operator", y), Value("operator", d)>>

\* let ab = a.tensor(&b)
MixedAB == Let("ab", 4, OperatorTensor(env[1].val, env[2].val, overflowChecks))
\* let cd = c.tensor(&d)
MixedCD == Let("cd", 5, OperatorTensor(env[3].val, env[4].val, overflowChecks))
\* let lhs = ab * cd
MixedLhs ==
    /\ Len(env) = 6 /\ env[6].kind # "panic"
    /\ \E r \in OperatorMul(env[5].val, env[6].val) : Let("lhs", 6, Value("operator", r))
\* let ac = a * c
MixedAC ==
    /\ Len(env) = 7
    /\ \E r \in OperatorMul(env[1].val, env[3].val) : Let("ac", 7, Value("operator", r))
\* let bd = b * d
MixedBD ==
    /\ Len(env) = 8
    /\ \E r \in OperatorMul(env[2].val, env[4].val) : Let("bd", 8, Value("operator", r))
\* let rhs = ac.tensor(&bd)
MixedRhs == Let("rhs", 9, OperatorTensor(env[8].val, env[9].val, overflowChecks))

NextMixed ==
    \/ MixedAB
    \/ MixedCD
    \/ MixedLhs
    \/ MixedAC
    \/ MixedBD
    \/ MixedRhs

SpecMixed == InitMixed /\ [][NextMixed]_vars

----------------------------------------------------------------------------
(* Mathematical vocabulary of the properties *)

\* Natural numbers of any size, as little-endian sequences of 16-bit limbs
\* without leading zero limbs
RECURSIVE Trim(_)
Trim(s) ==
    IF s = <<>> THEN <<>>
    ELSE IF s[Len(s)] = 0 THEN Trim(SubSeq(s, 1, Len(s) - 1)) ELSE s

NatOfU32(a) == Trim(<<a[2], a[1]>>)
LimbAt(p, i) == IF i <= Len(p) THEN p[i] ELSE 0

\* p * m + q for a factor m <= 2^15
RECURSIVE NatMulAddFrom(_, _, _, _, _)
NatMulAddFrom(p, m, q, i, carry) ==
    IF i > Len(p) /\ i > Len(q) /\ carry = 0 THEN <<>>
    ELSE LET t == LimbAt(p, i) * m + LimbAt(q, i) + carry
         IN  <<t % Limb>> \o NatMulAddFrom(p, m, q, i + 1, t \div Limb)
NatMulAdd(p, m, q) == Trim(NatMulAddFrom(p, m, q, 1, 0))

NatAdd(p, q) == NatMulAdd(p, 1, q)

\* p * 2^k
RECURSIVE NatShift(_, _)
NatShift(p, k) ==
    IF k = 0 THEN p
    ELSE IF k >= U32Bits \div 2
         THEN NatShift(IF p = <<>> THEN <<>> ELSE <<0>> \o p, k - U32Bits \div 2)
         ELSE NatMulAdd(p, 2 ^ k, <<>>)

\* index < 2^n, for a u32 index and a u32 qubit count
Below2Pow(index, n) ==
    \/ n[1] > 0 \/ n[2] >= U32Bits
    \/ IF n[2] < U32Bits \div 2
       THEN index[1] = 0 /\ index[2] < 2 ^ n[2]
       ELSE index[1] < 2 ^ (n[2] - U32Bits \div 2)

RECURSIVE SumSeq(_)
SumSeq(s) == IF s = <<>> THEN 0 ELSE s[1] + SumSeq(Tail(s))

\* the basis indices of an n-qubit space, n a small integer
Basis(n) == {U32(v) : v \in 0..(2 ^ n - 1)}

KeyOf(t) == UnitKetBra(t.ket, t.bra, t.n)
KetKeyOf(t) == UnitKet(t.ket, t.n)

\* sum of the coefficients of the terms of a list on the slot (k, b)
SlotSum(ones, k, b) ==
    SumSeq([i \in 1..Len(ones) |->
              IF ones[i].ket = k /\ ones[i].bra = b THEN ones[i].scalar ELSE 0])

\* the coefficient an operator represents on the slot (k, b)
Coef(op, k, b) == op.scalar * SlotSum(op.ones, k, b)

\* sum of the coefficients of the terms of a list with the unit key key
KeySum(ones, key) ==
    SumSeq([i \in 1..Len(ones) |-> IF KeyOf(ones[i]) = key THEN ones[i].scalar ELSE 0])

\* sum of a.scalar * b.scalar over the contracting pairs (a.bra = b.ket) of two
\* lists that map to the key (ket = a.ket, bra = b.bra, n = a.n)
PairSum(as, bs, key) ==
    SumSeq([i \in 1..Len(as) |->
        SumSeq([j \in 1..Len(bs) |->
            IF /\ as[i].bra = bs[j].ket
               /\ UnitKetBra(as[i].ket, bs[j].bra, as[i].n) = key
            THEN as[i].scalar * bs[j].scalar ELSE 0])])

\* the same for an operator's terms against a state's: key (ket = a.ket, n = a.n)
KetPairSum(as, ps, key) ==
    SumSeq([i \in 1..Len(as) |->
        SumSeq([j \in 1..Len(ps) |->
            IF as[i].bra = ps[j].ket /\ UnitKet(as[i].ket, as[i].n) = key
            THEN as[i].scalar * ps[j].scalar ELSE 0])])

Range(s) == {s[i] : i \in 1..Len(s)}

\* all terms of both operands carry one qubit count
SharedN(a, b) == Cardinality({t.n : t \in Range(a.ones) \cup Range(b.ones)}) = 1

----------------------------------------------------------------------------
(* Properties *)

\* C1: KetBra::tensor index law.  For every pair of terms a, b with
\* ket, bra < 2^n, a.tensor(b) returns a term with ket = a.ket * 2^(b.n) + b.ket,
\* bra = a.bra * 2^(b.n) + b.bra, n = a.n + b.n and scalar = a.scalar * b.scalar
\* (equalities of natural numbers).
C1_TensorIndexLaw ==
    last = "ketbra_tensor" =>
        /\ res.kind = "ketbra"
        /\ res.val.scalar = ta.scalar * tb.scalar
        /\ NatOfU32(res.val.ket)
             = NatAdd(NatShift(NatOfU32(ta.ket), ToInt(tb.n)), NatOfU32(tb.ket))
        /\ NatOfU32(res.val.bra)
             = NatAdd(NatShift(NatOfU32(ta.bra), ToInt(tb.n)), NatOfU32(tb.bra))
        /\ NatOfU32(res.val.n) = NatAdd(NatOfU32(ta.n), NatOfU32(tb.n))

\* C2: operator composition computes the matrix product.  For operands whose
\* terms all share one qubit count n, and every basis slot (i, j), the
\* coefficient the result represents at (i, j) equals the sum over k of the
\* coefficient x represents at (i, k) times the one y represents at (k, j).
C2_ComposeIsMatrixProduct ==
    (last = "compose" /\ SharedN(x, y)) =>
        LET n == ToInt(x.ones[1].n)
        IN  \A i \in Basis(n), j \in Basis(n) :
                Coef(res.val, i, j)
                  = SumSeq([k \in 1..(2 ^ n) |->
                              Coef(x, i, U32(k - 1)) * Coef(y, U32(k - 1), j)])

\* an operand holds two terms on one slot and the product is not zero
C2_Witness ==
    /\ last = "compose" /\ SharedN(x, y)
    /\ \E i, j \in 1..Len(x.ones) : i # j /\ KeyOf(x.ones[i]) = KeyOf(x.ones[j])
    /\ res.val.ones # <<>>

\* the unit keys a composition of two term lists can touch
ComposeKeys(as, bs) ==
    {UnitKetBra(a.ket, b.bra, a.n) : a \in Range(as), b \in Range(bs)}

\* C3: cancellation in composition.  The result of x * y holds a term for a
\* unit key exactly when the sum of kb.scalar * other_kb.scalar over the
\* contracting pairs that map to the key is not zero, every term's coefficient
\* is that sum, and the overall scalar is x.scalar * y.scalar.
C3_ComposeCancels ==
    last = "compose" =>
        /\ res.val.scalar = x.scalar * y.scalar
        /\ \A key \in ComposeKeys(x.ones, y.ones) :
               PairSum(x.ones, y.ones, key) # 0
                 <=> (\E t \in Range(res.val.ones) : KeyOf(t) = key)
        /\ \A t \in Range(res.val.ones) :
               t.scalar = PairSum(x.ones, y.ones, KeyOf(t)) /\ t.scalar # 0

\* contracting pairs exist for a key, their products cancel, and the key is
\* missing from the result
C3_Witness ==
    /\ last = "compose"
    /\ \E i \in 1..Len(x.ones), j \in 1..Len(y.ones) :
         /\ x.ones[i].bra = y.ones[j].ket
         /\ PairSum(x.ones, y.ones,
                    UnitKetBra(x.ones[i].ket, y.ones[j].bra, x.ones[i].n)) = 0
         /\ \A t \in Range(res.val.ones) :
                KeyOf(t) # UnitKetBra(x.ones[i].ket, y.ones[j].bra, x.ones[i].n)

\* the slots (ket, bra) two operands and a result touch
SlotsOf(a, b, c) ==
    {<<t.ket, t.bra>> : t \in Range(a.ones) \cup Range(b.ones) \cup Range(c.ones)}

\* C4: operator addition is elementwise.  For every basis slot the coefficient
\* the result represents equals x.scalar times the sum of x's coefficients on
\* the slot plus y.scalar times the sum of y's coefficients on it.
C4_AddIsElementwise ==
    last = "add" =>
        \A slot \in SlotsOf(x, y, res.val) :
            Coef(res.val, slot[1], slot[2])
              = Coef(x, slot[1], slot[2]) + Coef(y, slot[1], slot[2])

\* the unit keys of the terms of two operands
AddKeys(a, b) == {KeyOf(t) : t \in Range(a.ones) \cup Range(b.ones)}

\* C5: addition scaling rule.  x + y accumulates term.scalar * x.scalar for the
\* terms of x and of y alike (y.scalar is not used), drops the keys whose sum is
\* zero and returns overall scalar 1.
C5_AddScalesByLeftScalar ==
    last = "add" =>
        /\ res.val.scalar = 1
        /\ \A key \in AddKeys(x, y) :
               x.scalar * (KeySum(x.ones, key) + KeySum(y.ones, key)) # 0
                 <=> (\E t \in Range(res.val.ones) : KeyOf(t) = key)
        /\ \A t \in Range(res.val.ones) :
               /\ t.scalar = x.scalar * (KeySum(x.ones, KeyOf(t)) + KeySum(y.ones, KeyOf(t)))
               /\ t.scalar # 0

\* x has an overall scalar other than 1, y has overall scalar 1, and a term of
\* the result comes from y alone, multiplied by x.scalar
C5_Witness ==
    /\ last = "add" /\ x.scalar # 1 /\ y.scalar = 1
    /\ \E t \in Range(res.val.ones) :
         /\ KeySum(x.ones, KeyOf(t)) = 0
         /\ \A u \in Range(x.ones) : KeyOf(u) # KeyOf(t)
         /\ t.scalar = x.scalar * KeySum(y.ones, KeyOf(t))

ApplyKeys(as, ps) == {UnitKet(a.ket, a.n) : a \in Range(as)}

\* C7: operator applied to a state.  x * psi holds a Ket for a key (ket, n)
\* exactly when the sum of kb.scalar * pos.scalar over the contracting pairs
\* with that key is not zero, the Ket's coefficient is that sum, and the
\* overall scalar is x.scalar * psi.scalar.
C7_ApplyContracts ==
    last = "apply" =>
        /\ res.val.scalar = x.scalar * psi.scalar
        /\ \A key \in ApplyKeys(x.ones, psi.superpositions) :
               KetPairSum(x.ones, psi.superpositions, key) # 0
                 <=> (\E t \in Range(res.val.superpositions) : KetKeyOf(t) = key)
        /\ \A t \in Range(res.val.superpositions) :
               /\ t.scalar = KetPairSum(x.ones, psi.superpositions, KetKeyOf(t))
               /\ t.scalar # 0

\* two contracting pairs add up on one key of the result
C7_Witness ==
    /\ last = "apply"
    /\ \E t \in Range(res.val.superpositions) :
         Cardinality({p \in (1..Len(x.ones)) \X (1..Len(psi.superpositions)) :
                        /\ x.ones[p[1]].bra = psi.superpositions[p[2]].ket
                        /\ UnitKet(x.ones[p[1]].ket, x.ones[p[1]].n) = KetKeyOf(t)}) >= 2

\* C8: no empty aggregate is ever produced.  Every Operator and State bound or
\* returned in a session has a non-empty term list, and rendering never fails
\* on its access to the first term.
C8_NoEmptyAggregate ==
    /\ x.ones # <<>> /\ y.ones # <<>> /\ psi.superpositions # <<>>
    /\ res.kind = "operator" => res.val.ones # <<>>
    /\ res.kind = "state" => res.val.superpositions # <<>>
    /\ last \in {"display", "display_state"} => res.kind = "text"

TermsInBound(ts) == \A t \in Range(ts) : Below2Pow(t.ket, t.n) /\ Below2Pow(t.bra, t.n)
KetsInBound(ts) == \A t \in Range(ts) : Below2Pow(t.ket, t.n)

\* C9: the basis-index bound is an invariant.  Every term of every operator
\* and state bound or returned in a session satisfies ket < 2^n and bra < 2^n
\* for its own n.
C9_IndexBound ==
    /\ TermsInBound(x.ones) /\ TermsInBound(y.ones)
    /\ KetsInBound(psi.superpositions)
    /\ res.kind = "operator" => TermsInBound(res.val.ones)
    /\ res.kind = "state" => KetsInBound(res.val.superpositions)

\* C10: Operator::identity(n) returns, for every requested n, overall scalar 1
\* and exactly the two terms 1*|0><0| and 1*|1><1|, in that order, tagged with
\* the requested n.
C10_IdentityTwoTerms ==
    last = "identity" =>
        /\ res.kind = "operator"
        /\ res.val.scalar = 1
        /\ Len(res.val.ones) = 2
        /\ res.val.ones[1] = [scalar |-> 1, ket |-> <<0, 0>>, bra |-> <<0, 0>>, n |-> arg]
        /\ res.val.ones[2] = [scalar |-> 1, ket |-> <<0, 1>>, bra |-> <<0, 1>>, n |-> arg]

\* identity was asked for a qubit count whose space does not have 2 dimensions
C10_Witness ==
    last = "identity" /\ arg # <<0, 1>> /\ res.kind = "operator" /\ Len(res.val.ones) = 2

\* the one-qubit projector |j><j| with overall scalar 1
ProjectorOn(j) == Operator(1, <<KetBra(1, U32(j), U32(j), One32)>>)

\* C11: composition of tensored projectors.  For j, k in {0, 1},
\* (P_j tensor identity(1)) * (identity(1) tensor P_k) is structurally the
\* operator with overall scalar 1 and the single term 1*|2j+k><2j+k| at n = 2.
C11_TensoredProjectors ==
    \A j, k \in 0..1 :
        (/\ last = "b1b0"
         /\ env[1].val = ProjectorOn(j)
         /\ env[2].val = ProjectorOn(k))
        => res.val = Operator(1, <<KetBra(1, U32(2 * j + k), U32(2 * j + k), Two32)>>)

\* the case of the test: both projectors are |1><1| and the product is |3><3|
C11_Witness ==
    /\ last = "b1b0"
    /\ env[1].val = ProjectorOn(1) /\ env[2].val = ProjectorOn(1)
    /\ res.val.ones = <<KetBra(1, U32(3), U32(3), Two32)>>

\* C12: end-to-end scenario.  With h = [|0><1|, |1><0|, |0><0|, -|1><1|],
\* h0 = identity(1) tensor h, h1 = h tensor identity(1), hh = h0 * h1 and
\* c10 = |00><00| + |01><01| + |11><10| + |10><11|, the result of hh * c10 * hh
\* has exactly 4 terms, on the slots (0,0), (1,3), (2,2), (3,1) at n = 2, all
\* with the same non-zero coefficient; the other 12 slots are not in the list.
C12_EndToEnd ==
    (/\ last = "c01"
     /\ env[1].val.ones[4].scalar = -1)
    => /\ Len(res.val.ones) = 4
       /\ {KeyOf(t) : t \in Range(res.val.ones)}
            = {UnitKetBra(U32(0), U32(0), Two32), UnitKetBra(U32(1), U32(3), Two32),
               UnitKetBra(U32(2), U32(2), Two32), UnitKetBra(U32(3), U32(1), Two32)}
       /\ \A t \in Range(res.val.ones) :
              t.scalar # 0 /\ t.scalar = res.val.ones[1].scalar

\* the scenario of the test ran to c01, whose terms carry the coefficient 4
C12_Witness ==
    /\ last = "c01"
    /\ env[1].val.ones[4].scalar = -1
    /\ Len(env[8].val.ones) = 16
    /\ Len(res.val.ones) = 4 /\ res.val.ones[1].scalar = 4

\* C13: scalar scaling is lazy.  For every operator x and scalar r, x * r has
\* overall scalar x.scalar * r and a term list identical to x's: same terms,
\* same coefficients, same order, same n.
C13_ScalingIsLazy ==
    last = "scale" =>
        /\ res.kind = "operator"
        /\ res.val.scalar = x.scalar * arg
        /\ res.val.ones = x.ones

\* an operator with overall scalar 2 and a non-zero coefficient was scaled by
\* a factor other than 1
C13_Witness ==
    /\ last = "scale" /\ arg = -1 /\ x.scalar = 2 /\ Len(x.ones) >= 2
    /\ \E t \in Range(x.ones) : t.scalar # 0
    /\ res.val.scalar = -2

\* the qubit counts of the terms of a list
CountsOf(ts) == {t.n : t \in Range(ts)}

\* each of two term lists carries one qubit count, and the two differ
Mismatched(as, bs) ==
    /\ Cardinality(CountsOf(as)) = 1 /\ Cardinality(CountsOf(bs)) = 1
    /\ CountsOf(as) # CountsOf(bs)

\* C14 as stated: when the operands of a composition, an addition or an
\* application carry different n, the operation does not fail and all terms of
\* the result carry the n of one single operand.
C14_OneOperandsN ==
    /\ (last \in {"compose", "add"} /\ Mismatched(x.ones, y.ones)) =>
         /\ res.kind = "operator"
         /\ \/ CountsOf(res.val.ones) \subseteq CountsOf(x.ones)
            \/ CountsOf(res.val.ones) \subseteq CountsOf(y.ones)
    /\ (last = "apply" /\ Mismatched(x.ones, psi.superpositions)) =>
         /\ res.kind = "state"
         /\ \/ CountsOf(res.val.superpositions) \subseteq CountsOf(x.ones)
            \/ CountsOf(res.val.superpositions) \subseteq CountsOf(psi.superpositions)

\* C14 as amended: when the operands carry different n, the operation does not
\* fail; every term of a composition and of an application carries the n of
\* the left operand (the operator self), and every term of a sum carries the n
\* of the operand terms it was accumulated from (same ket, bra and n).
C14_LeftOrOwnN ==
    /\ (last = "compose" /\ Mismatched(x.ones, y.ones)) =>
         /\ res.kind = "operator"
         /\ CountsOf(res.val.ones) \subseteq CountsOf(x.ones)
    /\ (last = "add" /\ Mismatched(x.ones, y.ones)) =>
         /\ res.kind = "operator"
         /\ \A t \in Range(res.val.ones) :
                \E u \in Range(x.ones) \cup Range(y.ones) : KeyOf(u) = KeyOf(t)
    /\ (last = "apply" /\ Mismatched(x.ones, psi.superpositions)) =>
         /\ res.kind = "state"
         /\ CountsOf(res.val.superpositions) \subseteq CountsOf(x.ones)

\* a sum of operands with different n holds terms of both n
C14_Witness ==
    /\ last = "add" /\ Mismatched(x.ones, y.ones)
    /\ CountsOf(res.val.ones) = CountsOf(x.ones) \cup CountsOf(y.ones)

\* the unit keys of a list of terms are pairwise different
DistinctKeys(keys) == \A i, j \in 1..Len(keys) : i # j => keys[i] # keys[j]

\* C15: merged results hold each basis slot at most once.  In the result of
\* every composition, addition and application no two terms have the same
\* unit key (ket, bra, n), respectively (ket, n), whatever duplicates the
\* operands hold.
C15_SlotsAtMostOnce ==
    /\ last \in {"compose", "add"} =>
         DistinctKeys([i \in 1..Len(res.val.ones) |-> KeyOf(res.val.ones[i])])
    /\ last = "apply" =>
         DistinctKeys([i \in 1..Len(res.val.superpositions) |->
                          KetKeyOf(res.val.superpositions[i])])

\* an operand repeats a key, and the result holds that key
C15_Witness ==
    /\ last = "add"
    /\ \E i, j \in 1..Len(x.ones) :
         /\ i # j /\ KeyOf(x.ones[i]) = KeyOf(x.ones[j])
         /\ \E t \in Range(res.val.ones) : KeyOf(t) = KeyOf(x.ones[i])

\* the unit keys of the two results and of every slot of the n-qubit space
MixedKeys(lhs, rhs, n) ==
    {KeyOf(t) : t \in Range(lhs.ones) \cup Range(rhs.ones)}
        \cup {UnitKetBra(k, b, U32(n)) : k, b \in Basis(n)}

\* C16: mixed-product property.  For a, c whose terms share the qubit count
\* n1 and b, d whose terms share n2, all indices below 2^n,
\* (a.tensor(b)) * (c.tensor(d)) and (a * c).tensor(b * d) have the same
\* overall scalar and, on every slot of the (n1 + n2)-qubit space (and on no
\* other key), the same total coefficient.
C16_MixedProduct ==
    (/\ last = "rhs"
     /\ SharedN(env[1].val, env[3].val) /\ SharedN(env[2].val, env[4].val)
     /\ \A i \in 1..4 : TermsInBound(env[i].val.ones))
    => /\ env[10].kind = "operator"
       /\ env[7].val.scalar = env[10].val.scalar
       /\ \A key \in MixedKeys(env[7].val, env[10].val,
                                ToInt(env[1].val.ones[1].n) + ToInt(env[2].val.ones[1].n)) :
            /\ key.n = AddU32(env[1].val.ones[1].n, env[2].val.ones[1].n).v
            /\ env[7].val.scalar * KeySum(env[7].val.ones, key)
                 = env[10].val.scalar * KeySum(env[10].val.ones, key)

\* both sides are there for a, c of one qubit each (n1 = 1), a holds a slot
\* twice, a * c merged to a single term, and the result is not empty
C16_Witness ==
    /\ last = "rhs" /\ env[10].kind = "operator"
    /\ SharedN(env[1].val, env[3].val) /\ env[1].val.ones[1].n = One32
    /\ \E i, j \in 1..Len(env[1].val.ones) :
         i # j /\ KeyOf(env[1].val.ones[i]) = KeyOf(env[1].val.ones[j])
    /\ Len(env[8].val.ones) = 1
    /\ env[10].val.ones # <<>>
    /\ env[7].val.ones # env[10].val.ones

====
